---- MODULE Spec2Model ----
(***************************************************************************)
(* Model of scraper.py: the job scraper's producers, its merge with the    *)
(* prior jobs.csv, the recency and liveness filters and the final save.    *)
(*                                                                         *)
(* Strings are modelled as tuples of tokens: "" is <<>>, a substring test  *)
(* is a test for a token, str.lower() lowers each token.  A date string is *)
(* a tuple <<kind, ...>> (see parse_datetime_utc).  Instants are integers  *)
(* counting ticks (the clock's smallest unit) since an epoch.              *)
(***************************************************************************)
EXTENDS Integers, Sequences, FiniteSets, TLC

\* ------------------------------------------------------------------ bounds

\* ticks (microseconds in the program) in one second
TicksPerSec == 2
\* seconds in one hour
SecPerHour == 1
\* the clock advances at most MaxTicks during one run
MaxTicks == 1
\* digits of the seconds field of a formatted timestamp
Width == 2
\* records all the producers of one run yield together
MaxBatch == 2
\* items on one fetched page, pages (searches) of a multi-search producer
MaxItems == 2
MaxPages == 2

\* ------------------------------------------------------- configuration

MAX_JOB_AGE_HOURS == 24

OUTPUT_COLUMNS ==
    <<"id", "title", "company", "location", "salary", "url", "source",
      "posted_date", "scraped_at">>

JOB_KEYWORDS ==
    {"software engineer", "software developer", "swe", "sde",
     "data engineer", "data developer", "data analyst", "data analytics",
     "data scientist", "machine learning", "ml engineer", "ai engineer",
     "backend", "back-end", "frontend", "front-end", "fullstack",
     "full-stack", "full stack", "devops", "sre", "site reliability",
     "platform engineer", "cloud engineer", "bi developer",
     "business intelligence", "data reporting", "reporting analyst",
     "python developer", "java developer", "javascript developer",
     "typescript", "web developer", "mobile developer", "ios developer",
     "android developer", "database", "dba", "etl", "data warehouse",
     "analytics engineer", "graduate", "intern", "junior", "entry level",
     "solutions engineer", "technical analyst", "systems engineer",
     "quant", "quantitative", "quant developer", "quant engineer",
     "quantitative developer", "quantitative analyst", "quant researcher",
     "quant trader", "algorithmic trading", "algo trading",
     "trading systems", "mle", "machine learning engineer",
     "applied scientist"}

REMOTE_KEYWORDS ==
    {"remote", "fully remote", "work from anywhere", "work from home",
     "wfh", "anywhere", "global", "worldwide", "distributed"}

KENYA_KEYWORDS == {"kenya", "nairobi", "mombasa", "kisumu", "nakuru"}

closed_markers ==
    {"/closed", "/expired", "job-not-found", "no-longer-available",
     "position-filled", "position-closed"}

\* ------------------------------------------------------------- strings

EmptyStr == <<>>

\* str.lower() of one token: the tokens of the model that hold capitals
LowerTok(tok) ==
    CASE tok = "Data Engineer" -> "data engineer"
      [] tok = "Remote" -> "remote"
      [] tok = "Position-Closed" -> "position-closed"
      [] tok = "/JOB-NOT-FOUND" -> "/job-not-found"
      [] OTHER -> tok

Lower(s) == [i \in DOMAIN s |-> LowerTok(s[i])]

\* marker in s
Contains(s, marker) == \E i \in DOMAIN s : s[i] = marker

ContainsAny(s, markers) == \E m \in markers : Contains(s, m)

\* s.startswith(prefix)
StartsWith(s, prefix) == Len(s) >= 1 /\ s[1] = prefix

\* s.split(sep)[0]
SplitHead(s, sep) ==
    IF Contains(s, sep)
    THEN SubSeq(s, 1, (CHOOSE i \in DOMAIN s :
                         s[i] = sep /\ \A j \in 1..(i - 1) : s[j] # sep) - 1)
    ELSE s

generate_job_id(title, company, url) == <<title, company, url>>

\* a run of whitespace inside a string is the token "  "
IsSpace(tok) == tok = "  " \/ tok = " "

RECURSIVE LStrip(_)
LStrip(s) ==
    IF s # <<>> /\ IsSpace(Head(s)) THEN LStrip(Tail(s)) ELSE s

RECURSIVE RStrip(_)
RStrip(s) ==
    IF s # <<>> /\ IsSpace(s[Len(s)])
    THEN RStrip(SubSeq(s, 1, Len(s) - 1)) ELSE s

\* re.sub(r'\s+', ' ', str(text)).strip()
clean_text(text) ==
    LET one == [i \in DOMAIN text |->
                  IF IsSpace(text[i]) THEN " " ELSE text[i]]
    IN  RStrip(LStrip(one))

\* ---------------------------------------------------------------- time

TicksPerHour == SecPerHour * TicksPerSec

\* timedelta(hours=max_age_hours), in ticks
Hours(h) == h * TicksPerHour

\* the clock when main() starts
Now0 == Hours(MAX_JOB_AGE_HOURS) + 6 * TicksPerSec
MaxNow == Now0 + MaxTicks

None == -1

RECURSIVE Pow10(_)
Pow10(n) == IF n = 0 THEN 1 ELSE 10 * Pow10(n - 1)

\* the zero-padded decimal digits of n, most significant first
PadDigits(n, w) == [i \in 1..w |-> (n \div Pow10(w - i)) % 10]

RECURSIVE FromDigits(_)
FromDigits(ds) ==
    IF ds = <<>> THEN 0
    ELSE 10 * FromDigits(SubSeq(ds, 1, Len(ds) - 1)) + ds[Len(ds)]

\* datetime.isoformat() of an instant: full clock precision
isoformat(t) == <<"iso", t>>

RECURSIVE Digits(_)
\* the decimal digits of n with no padding
Digits(n) == IF n < 10 THEN <<n>> ELSE Append(Digits(n \div 10), n % 10)

\* dt.strftime('%Y-%m-%dT%H:%M:%SZ'): second precision, fixed width
strftime_mutant(t) == <<"Z">> \o Digits(t \div TicksPerSec)

strftime(t) == <<"Z">> \o PadDigits(t \div TicksPerSec, Width)

\* an RFC-822 date string (RSS pubDate): second precision
rfc822(sec) == <<"rfc", sec>>

\* the date strings of the model hold no whitespace: raw is value
parse_datetime_utc(value) ==
    LET raw == value
    IN  IF value = <<>> \/ raw = <<>> THEN None
        ELSE CASE raw[1] = "iso" /\ Len(raw) = 2 -> raw[2]
               [] raw[1] = "Z" /\ Len(raw) >= 2 ->
                    FromDigits(Tail(raw)) * TicksPerSec
               [] raw[1] = "rfc" /\ Len(raw) = 2 -> raw[2] * TicksPerSec
               [] OTHER -> None

\* posted_dt >= now - timedelta(hours=max_age_hours)
is_recent_mutant(posted_dt, max_age_hours, clock) ==
    IF posted_dt = None THEN FALSE
    ELSE posted_dt > clock - Hours(max_age_hours)

is_recent_post(posted_dt, max_age_hours, clock) ==
    IF posted_dt = None THEN FALSE
    ELSE LET cutoff == clock - Hours(max_age_hours)
         IN  posted_dt >= cutoff

\* --------------------------------------------------------- classifiers

is_valid_job_title(title) ==
    IF title = <<>> THEN FALSE
    ELSE ContainsAny(Lower(title), JOB_KEYWORDS)

is_acceptable_location(location, title, url) ==
    LET check_text == Lower(location \o <<" ">> \o title \o <<" ">> \o url)
    IN  ContainsAny(check_text, REMOTE_KEYWORDS)
        \/ ContainsAny(check_text, KENYA_KEYWORDS)

job_patterns ==
    {"/job/", "/jobs/", "/position/", "/positions/", "/opening/",
     "/openings/", "/requisition", "/jid/", "/jobid/", "/apply/", "jobid=",
     "job_id=", "positionid=", "/jobs/view/"}

generic_patterns ==
    {"/careers", "/careers/", "/jobs", "/jobs/", "/about", "/about/",
     "/company", "/company/", "/team", "/teams", "/culture", "/culture/"}

\* a URL is the scheme "http" or another, "://" or "s://", the host, then
\* the tokens of its path
is_direct_job_url(url) ==
    IF url = <<>> THEN FALSE
    ELSE LET url_lower == Lower(url)
             just_domain == /\ Len(url_lower) \in {3, 4}
                            /\ url_lower[1] = "http"
                            /\ url_lower[2] \in {"://", "s://"}
                            /\ Len(url_lower) = 4 => url_lower[4] = "/"
             generic == \/ just_domain
                        \/ url_lower[Len(url_lower)] \in generic_patterns
         IN  IF generic THEN FALSE
             ELSE ContainsAny(url_lower, job_patterns)

\* ------------------------------------------------------ liveness probe

\* a response of requests.head / requests.get: ok is FALSE when the call
\* raised (timeout, DNS, reset), else status and the final url (resp.url)
Raised == [ok |-> FALSE, status |-> 0, url |-> <<>>]
Response(status, final) == [ok |-> TRUE, status |-> status, url |-> final]

ProbeResult(open, requests) == [open |-> open, requests |-> requests]

closed_response(resp, url) ==
    LET final_url == Lower(IF resp.url # <<>> THEN resp.url ELSE url)
    IN  \/ ContainsAny(final_url, closed_markers)
        \/ resp.status \in {404, 410, 451}

\* the except clause drops the link
is_likely_open_strict(url, head, get) ==
    IF url = <<>> \/ ~StartsWith(url, "http")
    THEN ProbeResult(FALSE, <<>>)
    ELSE IF ContainsAny(Lower(url), closed_markers)
    THEN ProbeResult(FALSE, <<>>)
    ELSE IF ~head.ok THEN ProbeResult(FALSE, <<"HEAD">>)
    ELSE IF closed_response(head, url) THEN ProbeResult(FALSE, <<"HEAD">>)
    ELSE IF head.status = 405
    THEN IF ~get.ok THEN ProbeResult(FALSE, <<"HEAD", "GET">>)
         ELSE IF closed_response(get, url)
         THEN ProbeResult(FALSE, <<"HEAD", "GET">>)
         ELSE ProbeResult(TRUE, <<"HEAD", "GET">>)
    ELSE ProbeResult(TRUE, <<"HEAD">>)

\* the markers are looked for in the url as given, not lowercased
is_likely_open_cased(url, head, get) ==
    IF url = <<>> \/ ~StartsWith(url, "http")
    THEN ProbeResult(FALSE, <<>>)
    ELSE IF ContainsAny(url, closed_markers)
    THEN ProbeResult(FALSE, <<>>)
    ELSE IF ~head.ok THEN ProbeResult(TRUE, <<"HEAD">>)
    ELSE IF closed_response(head, url) THEN ProbeResult(FALSE, <<"HEAD">>)
    ELSE IF head.status = 405
    THEN IF ~get.ok THEN ProbeResult(TRUE, <<"HEAD", "GET">>)
         ELSE IF closed_response(get, url)
         THEN ProbeResult(FALSE, <<"HEAD", "GET">>)
         ELSE ProbeResult(TRUE, <<"HEAD", "GET">>)
    ELSE ProbeResult(TRUE, <<"HEAD">>)

is_likely_open_job_url(url, head, get) ==
    IF url = <<>> \/ ~StartsWith(url, "http")
    THEN ProbeResult(FALSE, <<>>)
    ELSE IF ContainsAny(Lower(url), closed_markers)
    THEN ProbeResult(FALSE, <<>>)
    ELSE IF ~head.ok THEN ProbeResult(TRUE, <<"HEAD">>)
    ELSE IF closed_response(head, url) THEN ProbeResult(FALSE, <<"HEAD">>)
    ELSE IF head.status = 405
    THEN IF ~get.ok THEN ProbeResult(TRUE, <<"HEAD", "GET">>)
         ELSE IF closed_response(get, url)
         THEN ProbeResult(FALSE, <<"HEAD", "GET">>)
         ELSE ProbeResult(TRUE, <<"HEAD", "GET">>)
    ELSE ProbeResult(TRUE, <<"HEAD">>)

\* ------------------------------------------------------------ producers

Job(id, title, company, location, salary, url, source, posted_date,
    scraped_at) ==
    [id |-> id, title |-> title, company |-> company,
     location |-> location, salary |-> salary, url |-> url,
     source |-> source, posted_date |-> posted_date,
     scraped_at |-> scraped_at]

\* one raw candidate of a fetched page; raises: handling it raises an
\* exception (a null where a mapping is expected, a non-mapping item)
Item(title, company, link, location, salary, posted, raises) ==
    [title |-> title, company |-> company, link |-> link,
     location |-> location, salary |-> salary, posted |-> posted,
     raises |-> raises]

\* a fetch: ok is FALSE when the request or the parse of its body raised
Page(ok, items) == [ok |-> ok, items |-> items]

RECURSIVE Flatten(_)
Flatten(ss) == IF ss = <<>> THEN <<>> ELSE Head(ss) \o Flatten(Tail(ss))

\* the items handled before the first one that raises
FirstRaise(items) ==
    IF \E i \in DOMAIN items : items[i].raises
    THEN CHOOSE i \in DOMAIN items :
           items[i].raises /\ \A j \in 1..(i - 1) : ~items[j].raises
    ELSE Len(items) + 1

github_item(item, t) ==
    LET title == clean_text(item.title)
        job_url == RStrip(LStrip(item.link))
        company == clean_text(item.company)
        location == clean_text(item.location)
    IN  IF Lower(title) \in {<<"role">>, <<"company">>, <<"position">>}
           \/ Contains(title, "---")
        THEN <<>>
        ELSE IF ~StartsWith(job_url, "http") THEN <<>>
        ELSE <<Job(generate_job_id(title, company, job_url), title, company,
                   IF location # <<>> THEN location ELSE <<"Australia">>,
                   <<>>, job_url, <<"GitHub-AusJobs">>,
                   isoformat(t), isoformat(t))>>

seek_item(item, t) ==
    LET title == clean_text(item.title)
        link == IF item.link # <<>> /\ ~StartsWith(item.link, "http")
                THEN <<"http", "s://", "www.seek.com.au">> \o item.link
                ELSE item.link
        company == clean_text(item.company)
        location == clean_text(item.location)
        salary == clean_text(item.salary)
    IN  IF ~Contains(link, "/job/") THEN <<>>
        ELSE IF company = <<>> THEN <<>>
        ELSE IF ~is_acceptable_location(location, title, link) THEN <<>>
        ELSE <<Job(generate_job_id(title, company, link), title, company,
                   location, salary, link, <<"SEEK">>,
                   isoformat(t), isoformat(t))>>

adzuna_item(item, t) ==
    LET title == clean_text(item.title)
        company == clean_text(item.company)
        location == clean_text(item.location)
        link == item.link
    IN  IF title = <<>> \/ company = <<>> \/ link = <<>> THEN <<>>
        ELSE IF ~is_valid_job_title(title) THEN <<>>
        ELSE IF ~is_acceptable_location(location, title, link) THEN <<>>
        ELSE <<Job(generate_job_id(title, company, link), title, company,
                   location, item.salary, link, <<"Adzuna-AU">>,
                   IF item.posted # <<>> THEN item.posted ELSE isoformat(t),
                   isoformat(t))>>

linkedin_item(item, t) ==
    LET title == clean_text(item.title)
        company == clean_text(item.company)
        location == clean_text(item.location)
        link == item.link
    IN  IF ~Contains(link, "/jobs/view/") THEN <<>>
        ELSE IF ~is_acceptable_location(location, title, link) THEN <<>>
        ELSE IF ~is_valid_job_title(title) THEN <<>>
        ELSE <<Job(generate_job_id(title, company, link), title, company,
                   location, <<>>, SplitHead(link, "?"), <<"LinkedIn">>,
                   isoformat(t), isoformat(t))>>

gradconnection_item(item, t) ==
    LET title == clean_text(item.title)
        company == clean_text(item.company)
        location == IF item.location # <<>> THEN clean_text(item.location)
                    ELSE <<"Australia">>
        link == IF ~StartsWith(item.link, "http")
                THEN <<"http", "s://", "au.gradconnection.com">> \o item.link
                ELSE item.link
    IN  IF ~is_direct_job_url(link) /\ ~Contains(link, "/graduate-jobs/")
        THEN <<>>
        ELSE IF ~is_acceptable_location(location, title, link) THEN <<>>
        ELSE <<Job(generate_job_id(title, company, link), title, company,
                   location, <<>>, link, <<"GradConnection">>,
                   isoformat(t), isoformat(t))>>

\* RemoteOK and Remotive build their records the same way
remote_api_item(item, t, source) ==
    LET title == clean_text(item.title)
        company == clean_text(item.company)
        link == item.link
        location == IF clean_text(item.location) # <<>>
                    THEN clean_text(item.location) ELSE <<"Remote">>
    IN  IF title = <<>> \/ company = <<>> \/ link = <<>> THEN <<>>
        ELSE IF ~is_valid_job_title(title) THEN <<>>
        ELSE IF ~is_acceptable_location(location, title, link) THEN <<>>
        ELSE <<Job(generate_job_id(title, company, link), title, company,
                   location, <<>>, link, source,
                   IF item.posted # <<>> THEN item.posted ELSE isoformat(t),
                   isoformat(t))>>

remoteok_item(item, t) == remote_api_item(item, t, <<"RemoteOK">>)

remotive_item(item, t) == remote_api_item(item, t, <<"Remotive">>)

weworkremotely_item(item, t) ==
    LET title == clean_text(item.title)
        link == clean_text(item.link)
        pub_date == item.posted
        split == Contains(title, ":")
        company == IF split THEN clean_text(SplitHead(title, ":")) ELSE <<>>
        role == IF split
                THEN clean_text(SubSeq(title, Len(SplitHead(title, ":")) + 2,
                                       Len(title)))
                ELSE title
    IN  IF role = <<>> \/ link = <<>> THEN <<>>
        ELSE IF ~is_valid_job_title(role) THEN <<>>
        ELSE IF ~is_acceptable_location(<<"Remote">>, role, link) THEN <<>>
        ELSE <<Job(generate_job_id(role, company, link), role,
                   IF company # <<>> THEN company ELSE <<"WeWorkRemotely">>,
                   <<"Remote">>, <<>>, link, <<"WeWorkRemotely">>,
                   IF pub_date # <<>> THEN pub_date ELSE isoformat(t),
                   isoformat(t))>>

\* ----------------------------------------------------------- data frame

RECURSIVE drop_duplicates_mutant(_)
\* keep='last'
drop_duplicates_mutant(rows) ==
    IF rows = <<>> THEN <<>>
    ELSE LET rest == drop_duplicates_mutant(Tail(rows))
         IN  IF \E i \in DOMAIN rest : rest[i].id = Head(rows).id
             THEN rest ELSE <<Head(rows)>> \o rest

RECURSIVE drop_duplicates(_)
\* df.drop_duplicates(subset=['id'], keep='first')
drop_duplicates(rows) ==
    IF rows = <<>> THEN <<>>
    ELSE LET init == drop_duplicates(SubSeq(rows, 1, Len(rows) - 1))
             last == rows[Len(rows)]
         IN  IF \E i \in DOMAIN init : init[i].id = last.id
             THEN init ELSE Append(init, last)

\* the characters of a date string that order it: what follows its kind
SortKey(s) == IF s = <<>> THEN <<>> ELSE Tail(s)

\* a < b as Python compares strings
StrLess(a, b) ==
    \E k \in 1..Len(b) :
      /\ \A j \in 1..(k - 1) : j <= Len(a) /\ a[j] = b[j]
      /\ k > Len(a) \/ a[k] < b[k]

RemoveAt(rows, i) == SubSeq(rows, 1, i - 1) \o SubSeq(rows, i + 1, Len(rows))

RECURSIVE sort_values(_, _)
\* df.sort_values(col, ascending=False): the orders a sort that is not
\* stable can give, rows with equal keys in any order
sort_values(rows, col) ==
    IF rows = <<>> THEN {<<>>}
    ELSE UNION {
           {<<rows[i]>> \o rest : rest \in sort_values(RemoveAt(rows, i), col)} :
           i \in {k \in DOMAIN rows :
                    \A j \in DOMAIN rows :
                      ~StrLess(SortKey(rows[k][col]), SortKey(rows[j][col]))}}

\* the missing value pandas puts where a frame has no value for a column
NaN == <<"float('nan')">>

Columns == {OUTPUT_COLUMNS[i] : i \in DOMAIN OUTPUT_COLUMNS}

\* pd.concat([df, existing], ignore_index=True): the union of the columns
concat(rows, existing) ==
    LET all == rows \o existing
        cols == Columns \cup UNION {DOMAIN all[i] : i \in DOMAIN all}
    IN  [i \in DOMAIN all |->
           [c \in cols |-> IF c \in DOMAIN all[i] THEN all[i][c] ELSE NaN]]

\* df.reindex(columns=OUTPUT_COLUMNS), then fillna("").astype(str)
reindex(row) ==
    [c \in Columns |->
       IF c \in DOMAIN row /\ row[c] # NaN THEN row[c] ELSE EmptyStr]

\* lines 813-818: the output schema, no empty id, one row per id
enforce_schema_mutant(rows) ==
    drop_duplicates([i \in DOMAIN rows |-> reindex(rows[i])])

enforce_schema(rows) ==
    LET fixed == [i \in DOMAIN rows |-> reindex(rows[i])]
        nonempty(r) == r.id # EmptyStr
    IN  drop_duplicates(SelectSeq(fixed, nonempty))

\* pd.concat([df, existing]) then drop_duplicates: this run's rows first
merge_existing_mutant(rows, existing) ==
    drop_duplicates(concat(existing, rows))

merge_existing(rows, existing) == drop_duplicates(concat(rows, existing))

\* -------------------------------------------------- the inputs of a run

RECURSIVE SeqsUpTo(_, _)
\* the sequences over S of length at most n
SeqsUpTo(S, n) ==
    IF n = 0 THEN {<<>>}
    ELSE LET shorter == SeqsUpTo(S, n - 1)
         IN  shorter \cup {Append(q, x) : q \in shorter, x \in S}

TitleDE == <<"Data Engineer">>
Acme == <<"acme">>
Remote == <<"Remote">>
UrlJob == <<"http", "s://", "acme.com", "/job/", "123">>
UrlClosed == <<"http", "s://", "acme.com", "/job/", "9", "Position-Closed">>
UrlLinkedIn == <<"http", "s://", "linkedin.com", "/jobs/view/", "77", "?", "trk">>
UrlExpiredPage == <<"http", "s://", "acme.com", "/expired">>
\* the posting of UrlLinkedIn, linked with another tracking parameter
UrlLinkedInRef ==
    <<"http", "s://", "linkedin.com", "/jobs/view/", "77", "?", "ref">>

\* instants around the recency cutoff of a run that starts at Now0
AtCutoff == Now0 - Hours(MAX_JOB_AGE_HOURS)
TooOld == AtCutoff - 1
Future == Now0 + 4 * TicksPerSec

ItemGood == Item(TitleDE, Acme, UrlJob, Remote, <<>>, <<>>, FALSE)
ItemPaid ==
    Item(TitleDE, Acme, UrlJob, <<"nairobi">>, <<"$100k">>,
         isoformat(AtCutoff), FALSE)
ItemStale == Item(TitleDE, <<"initech">>, UrlJob, Remote, <<>>,
                  isoformat(TooOld), FALSE)
ItemClosed == Item(TitleDE, Acme, UrlClosed, Remote, <<>>, <<>>, FALSE)
ItemNoCompany == Item(TitleDE, <<>>, UrlJob, Remote, <<>>, <<>>, FALSE)
ItemBroken == Item(TitleDE, Acme, UrlJob, Remote, <<>>, <<>>, TRUE)
ItemLinkedIn == Item(TitleDE, Acme, UrlLinkedIn, Remote, <<>>, <<>>, FALSE)
ItemLinkedInRef ==
    Item(TitleDE, Acme, UrlLinkedInRef, Remote, <<>>, <<>>, FALSE)
ItemGrad ==
    Item(TitleDE, Acme, <<"/graduate-jobs/", "55">>, Remote, <<>>, <<>>, FALSE)
ItemRss ==
    Item(<<"acme", ":", "  ", "Data Engineer">>, <<>>, UrlJob, <<>>, <<>>,
         rfc822(Future \div TicksPerSec), FALSE)

PRODUCERS ==
    <<"scrape_github_ausjobs", "scrape_seek", "scrape_adzuna_api",
      "scrape_linkedin_public", "scrape_gradconnection", "scrape_remoteok",
      "scrape_remotive", "scrape_weworkremotely">>

\* what the site of each producer can hold
SiteItems(p) ==
    CASE p = "scrape_github_ausjobs" -> {ItemGood}
      [] p = "scrape_seek" -> {ItemPaid, ItemNoCompany}
      [] p = "scrape_adzuna_api" -> {ItemGood, ItemStale, ItemBroken}
      [] p = "scrape_linkedin_public" -> {ItemLinkedIn, ItemLinkedInRef}
      [] p = "scrape_gradconnection" -> {ItemGrad, ItemNoCompany}
      [] p = "scrape_remoteok" -> {ItemClosed}
      [] p = "scrape_remotive" -> {ItemGood, ItemBroken}
      [] p = "scrape_weworkremotely" -> {ItemRss}

Pages(p) ==
    {Page(FALSE, <<>>)}
      \cup {Page(TRUE, items) : items \in SeqsUpTo(SiteItems(p), MaxItems)}

\* rows a prior jobs.csv can hold
IdGood == generate_job_id(TitleDE, Acme, UrlJob)
IdOther == generate_job_id(TitleDE, <<"globex">>, UrlJob)
IdUndated == generate_job_id(TitleDE, <<"hooli">>, UrlJob)

PriorGood ==
    Job(IdGood, TitleDE, Acme, <<"Sydney">>, <<>>, UrlJob, <<"SEEK">>,
        strftime(Now0), strftime(Now0))
PriorGoodDup ==
    Job(IdGood, TitleDE, Acme, <<"Perth">>, <<>>, UrlJob, <<"LinkedIn">>,
        strftime(Future), strftime(Now0))
PriorOther ==
    Job(IdOther, TitleDE, <<"globex">>, Remote, <<>>, UrlJob,
        <<"RemoteOK">>, strftime(AtCutoff), strftime(AtCutoff))
PriorNoId ==
    Job(<<>>, TitleDE, Acme, Remote, <<>>, UrlJob, <<"SEEK">>,
        strftime(Now0), strftime(Now0))
PriorUndated ==
    Job(IdUndated, TitleDE, <<"hooli">>, Remote, <<>>, UrlJob,
        <<"Remotive">>, <<"bad">>, <<>>)

\* a row whose url has no scheme
UrlBare == <<"www.", "acme.com", "/job/", "5">>
PriorBareUrl ==
    Job(generate_job_id(TitleDE, <<"umbrella">>, UrlBare), TitleDE,
        <<"umbrella">>, Remote, <<>>, UrlBare, <<"Adzuna-AU">>,
        strftime(Now0), strftime(Now0))

\* jobs.csv: absent, unreadable, or a header row and rows
Absent == [state |-> "absent", rows |-> <<>>]
Corrupt == [state |-> "corrupt", rows |-> <<>>]
Csv(rows) == [state |-> "ok", rows |-> rows]

\* a file written by an older version: no id and no salary column, a notes
\* column the schema does not know
LegacyRow ==
    [title |-> TitleDE, company |-> Acme, location |-> Remote, url |-> UrlJob,
     source |-> <<"SEEK">>, posted_date |-> strftime(Now0),
     scraped_at |-> strftime(Now0), notes |-> <<"legacy">>]

PriorFiles ==
    {Absent, Corrupt, Csv(<<>>), Csv(<<LegacyRow>>), Csv(<<PriorGood>>),
     Csv(<<PriorOther, PriorGood>>), Csv(<<PriorNoId, PriorOther>>),
     Csv(<<PriorOther, PriorUndated>>), Csv(<<PriorGood, PriorGoodDup>>),
     Csv(<<PriorBareUrl>>)}

Statuses == {200, 301, 403, 404, 405, 410, 451, 500}

\* what a request for url can come back with: an exception, or a status
\* and the url the redirects ended at
Responses(url, statuses) ==
    {Raised} \cup
    {Response(st, final) :
       st \in statuses, final \in {url, <<>>, UrlExpiredPage}}

\* the statuses the runs of main() meet
RunStatuses == {200, 404, 405}

\* ---------------------------------------------------------------- state

VARIABLES
    disk,             \* jobs.csv
    json,             \* jobs.json
    merge_mode,       \* '--merge' in sys.argv
    open_check,       \* OPEN_CHECK_ENABLED
    now,              \* datetime.now(timezone.utc)
    pc,               \* where main() is
    step,             \* the producer main() calls next
    search,           \* the search the running producer fetches next
    jobs,             \* the running producer's jobs list
    failed,           \* the running producer caught an exception
    lastRun,          \* what the producer that has just returned gave
    all_jobs,
    df,
    pre_filter_count,
    row_i,            \* the row of df the filter loop handles next
    url_open_cache,
    dropped_old,
    dropped_closed,
    normalized_rows,
    probes,           \* calls of is_likely_open_job_url of this run, per url
    lastProbe,        \* a call of is_likely_open_job_url on its own
    verdicts,         \* what the filter loop decided, row by row
    prior             \* jobs.csv as main() found it

vars ==
    <<disk, json, merge_mode, open_check, now, pc, step, search, jobs, failed,
      lastRun, all_jobs, df, pre_filter_count, row_i, url_open_cache,
      dropped_old, dropped_closed, normalized_rows, probes, lastProbe,
      verdicts, prior>>

scrapeVars == <<step, search, jobs, failed, lastRun, all_jobs>>
filterVars ==
    <<df, pre_filter_count, row_i, url_open_cache, dropped_old,
      dropped_closed, normalized_rows, probes, lastProbe, verdicts>>
envVars == <<disk, json, merge_mode, open_check, prior>>

NoRun == [producer |-> "", failed |-> FALSE, count |-> 0]
NoProbe ==
    [called |-> FALSE, url |-> <<>>, head |-> Raised, get |-> Raised,
     open |-> FALSE, requests |-> <<>>]
EmptyMap == [u \in {} |-> FALSE]

Init ==
    /\ disk \in PriorFiles
    /\ json = [written |-> FALSE, last_updated |-> <<>>, total_jobs |-> 0,
               jobs |-> <<>>]
    /\ merge_mode \in BOOLEAN
    /\ open_check \in BOOLEAN
    /\ now = Now0
    /\ pc = "scrape"
    /\ step = 1
    /\ search = 1
    /\ jobs = <<>>
    /\ failed = FALSE
    /\ lastRun = NoRun
    /\ all_jobs = <<>>
    /\ df = <<>>
    /\ pre_filter_count = 0
    /\ row_i = 1
    /\ url_open_cache = EmptyMap
    /\ dropped_old = 0
    /\ dropped_closed = 0
    /\ normalized_rows = <<>>
    /\ probes = EmptyMap
    /\ lastProbe = NoProbe
    /\ verdicts = <<>>
    /\ prior = disk

\* ------------------------------------------------------ producers' steps

item_jobs(p, item, t) ==
    CASE p = "scrape_github_ausjobs" -> github_item(item, t)
      [] p = "scrape_seek" -> seek_item(item, t)
      [] p = "scrape_adzuna_api" -> adzuna_item(item, t)
      [] p = "scrape_linkedin_public" -> linkedin_item(item, t)
      [] p = "scrape_gradconnection" -> gradconnection_item(item, t)
      [] p = "scrape_remoteok" -> remoteok_item(item, t)
      [] p = "scrape_remotive" -> remotive_item(item, t)
      [] p = "scrape_weworkremotely" -> weworkremotely_item(item, t)

\* the producers whose loop body has a try of its own: an item that raises
\* is skipped and the loop goes on
CardTry(p) ==
    p \in {"scrape_seek", "scrape_linkedin_public", "scrape_gradconnection"}

\* the records one fetch appends to jobs: the except clause around the
\* fetch keeps what the loop appended before the exception
page_jobs(p, page, t) ==
    LET items == page.items
        outs == [i \in DOMAIN items |->
                   IF items[i].raises THEN <<>> ELSE item_jobs(p, items[i], t)]
    IN  IF ~page.ok THEN <<>>
        ELSE IF CardTry(p) THEN Flatten(outs)
        ELSE Flatten(SubSeq(outs, 1, FirstRaise(items) - 1))

\* the fetch ended in the except clause around it
page_failed(p, page) ==
    \/ ~page.ok
    \/ ~CardTry(p) /\ FirstRaise(page.items) <= Len(page.items)

\* the producers that loop over searches, one fetch each
Searches(p) ==
    IF p \in {"scrape_seek", "scrape_adzuna_api", "scrape_linkedin_public"}
    THEN MaxPages ELSE 1

\* the producer returns jobs and main() extends all_jobs with it
Return(p, out, f) ==
    /\ all_jobs' = all_jobs \o out
    /\ lastRun' = [producer |-> p, failed |-> f, count |-> Len(out)]
    /\ jobs' = <<>>
    /\ failed' = FALSE
    /\ search' = 1
    /\ IF step < Len(PRODUCERS)
       THEN step' = step + 1 /\ pc' = pc
       ELSE step' = step /\ pc' = "frame"

\* one fetch of producer p and the loop over what it returned
Fetch(p) ==
    /\ pc = "scrape"
    /\ \E page \in Pages(p) :
         LET out == jobs \o page_jobs(p, page, now)
             f == failed \/ page_failed(p, page)
         IN  /\ Len(all_jobs) + Len(out) <= MaxBatch
             /\ IF search < Searches(p)
                THEN /\ jobs' = out
                     /\ failed' = f
                     /\ search' = search + 1
                     /\ UNCHANGED <<step, lastRun, all_jobs, pc>>
                ELSE Return(p, out, f)
    /\ UNCHANGED <<envVars, now, filterVars>>

scrape_github_ausjobs ==
    /\ PRODUCERS[step] = "scrape_github_ausjobs"
    /\ Fetch("scrape_github_ausjobs")

scrape_seek ==
    /\ PRODUCERS[step] = "scrape_seek"
    /\ Fetch("scrape_seek")

scrape_adzuna_api ==
    \/ /\ PRODUCERS[step] = "scrape_adzuna_api"
       /\ Fetch("scrape_adzuna_api")
    \/ \* no credentials in the environment: return jobs at once
       /\ pc = "scrape"
       /\ PRODUCERS[step] = "scrape_adzuna_api"
       /\ search = 1
       /\ Return("scrape_adzuna_api", <<>>, FALSE)
       /\ UNCHANGED <<envVars, now, filterVars>>

scrape_linkedin_public ==
    /\ PRODUCERS[step] = "scrape_linkedin_public"
    /\ Fetch("scrape_linkedin_public")

scrape_gradconnection ==
    /\ PRODUCERS[step] = "scrape_gradconnection"
    /\ Fetch("scrape_gradconnection")

scrape_remoteok ==
    /\ PRODUCERS[step] = "scrape_remoteok"
    /\ Fetch("scrape_remoteok")

scrape_remotive ==
    /\ PRODUCERS[step] = "scrape_remotive"
    /\ Fetch("scrape_remotive")

scrape_weworkremotely ==
    /\ PRODUCERS[step] = "scrape_weworkremotely"
    /\ Fetch("scrape_weworkremotely")

\* time passes
Tick ==
    /\ pc = "filter"
    /\ now < MaxNow
    /\ now' = now + 1
    /\ UNCHANGED <<envVars, pc, scrapeVars, filterVars>>

\* ----------------------------------------------------------------- main

\* the probe of url goes on to requests.get after the response head
issues_get(url, head) ==
    Len(is_likely_open_job_url(url, head, Raised).requests) = 2

\* lines 804-811: the prior file joins the frame when it can be read; the
\* except clause leaves the frame as it was
with_existing_mutant(rows, file) ==
    IF file.state = "ok" THEN merge_existing(rows, file.rows) ELSE <<>>

with_existing(rows, file) ==
    IF file.state = "ok" THEN merge_existing(rows, file.rows) ELSE rows

\* merge mode alone is taken for a file to merge with
exists_mutant(file) == TRUE

\* os.path.exists('jobs.csv')
exists(file) == file.state # "absent"

\* lines 789-793: nothing scraped and nothing to merge with
NoJobsFound ==
    /\ pc = "frame"
    /\ all_jobs = <<>> /\ ~(merge_mode /\ exists(disk))
    /\ pc' = "returned"
    /\ lastRun' = NoRun
    /\ UNCHANGED <<envVars, now, step, search, jobs, failed, all_jobs,
                   filterVars>>

\* lines 795-818: the frame of this run's records, merged with the prior
\* file in merge mode, in the output schema
BuildFrame ==
    /\ pc = "frame"
    /\ ~(all_jobs = <<>> /\ ~(merge_mode /\ exists(disk)))
    /\ \E fresh \in (IF all_jobs = <<>> THEN {<<>>}
                      ELSE sort_values(drop_duplicates(all_jobs),
                                       "scraped_at")) :
         LET merged == IF merge_mode /\ exists(disk)
                       THEN with_existing(fresh, disk)
                       ELSE fresh
         IN  /\ pre_filter_count' = Len(fresh)
             /\ df' = enforce_schema(merged)
    /\ row_i' = 1
    /\ pc' = "filter"
    /\ lastRun' = NoRun
    /\ UNCHANGED <<envVars, now, step, search, jobs, failed, all_jobs,
                   url_open_cache, dropped_old,
                   dropped_closed, normalized_rows, probes, lastProbe,
                   verdicts>>

\* parse_datetime_utc(posted_date) or parse_datetime_utc(scraped_at)
resolve_posted(row) ==
    IF parse_datetime_utc(row.posted_date) # None
    THEN parse_datetime_utc(row.posted_date)
    ELSE parse_datetime_utc(row.scraped_at)

\* lines 840-842: the row with both timestamps in canonical form
\* scraped_at is stamped with the time of this run
normalize_mutant(row, posted_dt, clock) ==
    [row EXCEPT !.posted_date = strftime(posted_dt),
                !.scraped_at = strftime(clock)]

normalize(row, posted_dt, clock) ==
    LET scraped_dt == IF parse_datetime_utc(row.scraped_at) # None
                      THEN parse_datetime_utc(row.scraped_at) ELSE clock
    IN  [row EXCEPT !.posted_date = strftime(posted_dt),
                    !.scraped_at = strftime(scraped_dt)]

\* url in url_open_cache
cache_hit_mutant(cache, url) == FALSE

cache_hit(cache, url) == url \in DOMAIN cache

Put(map, key, value) ==
    [k \in DOMAIN map \cup {key} |-> IF k = key THEN value ELSE map[k]]

Verdict(row, posted_dt, verdict) ==
    [id |-> row.id, posted_dt |-> posted_dt, clock |-> now,
     verdict |-> verdict]

DropOld(row, posted_dt) ==
    /\ dropped_old' = dropped_old + 1
    /\ verdicts' = Append(verdicts, Verdict(row, posted_dt, "old"))
    /\ UNCHANGED <<dropped_closed, normalized_rows>>

\* the record is dropped without being counted
DropClosed_mutant(row, posted_dt) ==
    /\ verdicts' = Append(verdicts, Verdict(row, posted_dt, "closed"))
    /\ UNCHANGED <<dropped_old, dropped_closed, normalized_rows>>

DropClosed(row, posted_dt) ==
    /\ dropped_closed' = dropped_closed + 1
    /\ verdicts' = Append(verdicts, Verdict(row, posted_dt, "closed"))
    /\ UNCHANGED <<dropped_old, normalized_rows>>

Keep(row, posted_dt) ==
    /\ normalized_rows' = Append(normalized_rows,
                                 normalize(row, posted_dt, now))
    /\ verdicts' = Append(verdicts, Verdict(row, posted_dt, "kept"))
    /\ UNCHANGED <<dropped_old, dropped_closed>>

\* lines 826-843: one pass of the filter loop
FilterRow ==
    /\ pc = "filter"
    /\ row_i <= Len(df)
    /\ LET row == df[row_i]
           posted_dt == resolve_posted(row)
           url == row.url
       IN  IF ~is_recent_post(posted_dt, MAX_JOB_AGE_HOURS, now)
           THEN /\ DropOld(row, posted_dt)
                /\ UNCHANGED <<url_open_cache, probes>>
           ELSE IF ~open_check
           THEN /\ Keep(row, posted_dt)
                /\ UNCHANGED <<url_open_cache, probes>>
           ELSE IF cache_hit(url_open_cache, url)
           THEN /\ IF url_open_cache[url]
                   THEN Keep(row, posted_dt)
                   ELSE DropClosed(row, posted_dt)
                /\ UNCHANGED <<url_open_cache, probes>>
           ELSE \E head \in Responses(url, RunStatuses) :
                \E get \in (IF issues_get(url, head)
                            THEN Responses(url, RunStatuses) ELSE {Raised}) :
                  LET res == is_likely_open_job_url(url, head, get)
                  IN  /\ url_open_cache' = Put(url_open_cache, url, res.open)
                      /\ probes' =
                           Put(probes, url,
                               IF url \in DOMAIN probes
                               THEN probes[url] + 1 ELSE 1)
                      /\ IF res.open
                         THEN Keep(row, posted_dt)
                         ELSE DropClosed(row, posted_dt)
    /\ row_i' = row_i + 1
    /\ UNCHANGED <<envVars, now, pc, scrapeVars, df, pre_filter_count,
                   lastProbe>>

\* lines 845-869: one row per id, newest first, written to both files
Persist ==
    /\ pc = "filter"
    /\ row_i > Len(df)
    /\ \E out \in (IF normalized_rows = <<>> THEN {<<>>}
                    ELSE sort_values(drop_duplicates(normalized_rows),
                                     "posted_date")) :
         /\ disk' = Csv(out)
         /\ json' = [written |-> TRUE, last_updated |-> isoformat(now),
                     total_jobs |-> Len(out), jobs |-> out]
    /\ pc' = "done"
    /\ UNCHANGED <<merge_mode, open_check, prior, now, scrapeVars, df,
                   pre_filter_count, row_i, url_open_cache, dropped_old,
                   dropped_closed, normalized_rows, probes, lastProbe,
                   verdicts>>

Next ==
    \/ scrape_github_ausjobs
    \/ scrape_seek
    \/ scrape_adzuna_api
    \/ scrape_linkedin_public
    \/ scrape_gradconnection
    \/ scrape_remoteok
    \/ scrape_remotive
    \/ scrape_weworkremotely
    \/ NoJobsFound
    \/ BuildFrame
    \/ FilterRow
    \/ Persist
    \/ Tick

Spec == Init /\ [][Next]_vars

\* ------------------------------------------- the probe, called on its own

ProbeUrls ==
    {<<>>, UrlJob, UrlClosed, UrlExpiredPage, UrlLinkedIn,
     <<"ftp", "://", "acme.com", "/job/", "123">>,
     <<"http", "://", "acme.com", "/JOB-NOT-FOUND">>}

InitProbe ==
    /\ Init
    /\ disk = Absent
    /\ ~merge_mode
    /\ open_check

\* is_likely_open_job_url(url), the network answering head and then get
Probe ==
    /\ pc = "scrape"
    /\ \E url \in ProbeUrls :
         \E head \in Responses(url, Statuses) :
           \E get \in (IF issues_get(url, head)
                       THEN Responses(url, Statuses) ELSE {Raised}) :
             LET res == is_likely_open_job_url(url, head, get)
             IN  lastProbe' = [called |-> TRUE, url |-> url, head |-> head,
                               get |-> get, open |-> res.open,
                               requests |-> res.requests]
    /\ UNCHANGED <<envVars, now, pc, scrapeVars, df, pre_filter_count,
                   row_i, url_open_cache, dropped_old, dropped_closed,
                   normalized_rows, probes, verdicts>>

NextProbe == Probe

SpecProbe == InitProbe /\ [][NextProbe]_vars

\* =============================================================== claims

HasId(r) == "id" \in DOMAIN r
Ids(rows) == {rows[i].id : i \in {k \in DOMAIN rows : HasId(rows[k])}}
Count(rows, X) == Cardinality({i \in DOMAIN rows : rows[i].id = X})
FirstWith(rows, X) ==
    rows[CHOOSE i \in DOMAIN rows :
           /\ HasId(rows[i]) /\ rows[i].id = X
           /\ \A j \in 1..(i - 1) : ~(HasId(rows[j]) /\ rows[j].id = X)]
SameContent(a, b) ==
    \A c \in {"title", "company", "location", "salary", "url", "source"} :
      a[c] = b[c]

\* the rows main() read from the prior jobs.csv
PriorRead == IF merge_mode /\ prior.state = "ok" THEN prior.rows ELSE <<>>

Written == pc = "done"
Decided(X) == \E i \in DOMAIN verdicts : verdicts[i].id = X
VerdictOf(X) == verdicts[CHOOSE i \in DOMAIN verdicts : verdicts[i].id = X]
KeptId(X) == Decided(X) /\ VerdictOf(X).verdict = "kept"

\* C1 as stated: in a merge run every id that is in the batch and in the
\* prior file has exactly one output record, equal to the batch's first
\* copy on title, company, location, salary, url and source.
C1_Original ==
    (Written /\ merge_mode) =>
      \A X \in Ids(all_jobs) \cap Ids(PriorRead) :
        /\ Count(disk.rows, X) = 1
        /\ SameContent(FirstWith(disk.rows, X), FirstWith(all_jobs, X))

\* C1 as amended: in a merge run every id that is in the batch and in the
\* prior file has at most one output record; it has one exactly when the
\* batch's first copy passed the recency and liveness filters, and that
\* record equals the batch's first copy, never the prior copy, on title,
\* company, location, salary, url and source.
C1_MergeOverrides ==
    (Written /\ merge_mode) =>
      \A X \in Ids(all_jobs) \cap Ids(PriorRead) :
        /\ Count(disk.rows, X) <= 1
        /\ Count(disk.rows, X) = 1 <=> KeptId(X)
        /\ \A i \in DOMAIN disk.rows :
             disk.rows[i].id = X =>
               SameContent(disk.rows[i], FirstWith(all_jobs, X))

\* a merge run wrote the batch's copy of an id whose prior copy differs
C1_Witness ==
    /\ Written /\ merge_mode
    /\ \E X \in Ids(all_jobs) \cap Ids(PriorRead) :
         /\ Count(disk.rows, X) = 1
         /\ Count(all_jobs, X) = 2
         /\ ~SameContent(FirstWith(PriorRead, X), FirstWith(all_jobs, X))
         /\ ~SameContent(all_jobs[1], all_jobs[2])

\* ---------------------------------------------------------------- C2

\* the records the run put together: this run's first, then the prior
\* file's when main() merged it
UnionRows == all_jobs \o PriorRead
Winner(X) == FirstWith(UnionRows, X)

\* the winning copy of X passed the recency filter when the loop came to
\* it and, with the open check on, the liveness filter
Passed(X) ==
    /\ Decided(X)
    /\ VerdictOf(X).posted_dt = resolve_posted(reindex(Winner(X)))
    /\ is_recent_post(VerdictOf(X).posted_dt, MAX_JOB_AGE_HOURS,
                      VerdictOf(X).clock)
    /\ open_check =>
         /\ Winner(X).url \in DOMAIN url_open_cache
         /\ url_open_cache[Winner(X).url]

\* C2 as amended: after a run that writes the file, the ids of the file
\* are exactly the non-empty ids of the deduplicated union of this run's
\* records and, in merge mode with a readable prior file only, the prior
\* records, whose winning copy passed the filters, this run's copy
\* winning every collision.
C2_FilteredUnion ==
    Written =>
      /\ \A X \in Ids(UnionRows) \ {EmptyStr} :
           Cardinality({i \in DOMAIN verdicts : verdicts[i].id = X}) = 1
      /\ Ids(disk.rows) = {X \in Ids(UnionRows) \ {EmptyStr} : Passed(X)}

\* the prior file's rows, whatever the mode of the run
PriorAny == IF prior.state = "ok" THEN prior.rows ELSE <<>>

\* the first copy of X among this run's records and then the prior file's
\* passes the filters: as the loop found it, or as they stand at the end
\* of the run when the loop never came to it
PassesFilters(X) ==
    LET r == reindex(FirstWith(all_jobs \o PriorAny, X))
        clock == IF Decided(X) THEN VerdictOf(X).clock ELSE now
    IN  /\ is_recent_post(resolve_posted(r), MAX_JOB_AGE_HOURS, clock)
        /\ (open_check /\ r.url \in DOMAIN url_open_cache) =>
             url_open_cache[r.url]

\* C2 as stated: after any run the ids of the file are exactly the ids of
\* the deduplicated union of this run's records and the prior records
\* whose winning copy passes the filters.
C2_Original ==
    pc \in {"done", "returned"} =>
      Ids(disk.rows) = {X \in Ids(all_jobs \o PriorAny) : PassesFilters(X)}

\* a merge run wrote an id only the prior file had and an id both had, and
\* dropped another id of the union
C2_Witness ==
    /\ Written /\ merge_mode
    /\ \E X \in Ids(disk.rows) : X \notin Ids(all_jobs)
    /\ \E X \in Ids(disk.rows) : X \in Ids(all_jobs) \cap Ids(PriorRead)
    /\ \E X \in Ids(UnionRows) : X \notin Ids(disk.rows)

\* ---------------------------------------------------------------- C3

\* C3: a dataset a run writes has no two records with one id and no record
\* with the empty id, whatever the batch and the prior file held.
C3_UniqueNonEmptyIds ==
    Written =>
      /\ \A i, j \in DOMAIN disk.rows :
           i # j => disk.rows[i].id # disk.rows[j].id
      /\ \A i \in DOMAIN disk.rows : disk.rows[i].id # EmptyStr
      /\ json.jobs = disk.rows

\* a merge run read a prior file with an empty id, scraped one id twice
\* and wrote records
C3_Witness ==
    /\ Written /\ merge_mode
    /\ disk.rows # <<>>
    /\ \E i \in DOMAIN PriorRead :
         HasId(PriorRead[i]) /\ PriorRead[i].id = EmptyStr
    /\ \E X \in Ids(all_jobs) : Count(all_jobs, X) = 2

\* ---------------------------------------------------------------- C4

\* C4: a dataset a run writes is ordered newest first: of two adjacent
\* records the earlier one's posted_date is not the older instant.
C4_NewestFirst ==
    Written =>
      \A i \in 1..(Len(disk.rows) - 1) :
        parse_datetime_utc(disk.rows[i].posted_date)
          >= parse_datetime_utc(disk.rows[i + 1].posted_date)

\* a run wrote two records whose seconds differ in their number of digits
C4_Witness ==
    /\ Written
    /\ Len(disk.rows) >= 2
    /\ parse_datetime_utc(disk.rows[1].posted_date) >= 10 * TicksPerSec
    /\ parse_datetime_utc(disk.rows[Len(disk.rows)].posted_date)
         < 10 * TicksPerSec

\* ---------------------------------------------------------------- C5

\* C5: the filter loop keeps a record past the recency filter exactly when
\* its resolved instant is not None and is at most max_age_hours before
\* the clock: kept at exactly max_age_hours, dropped one tick older,
\* dropped when None, kept when in the future.
C5_RecencyBoundary ==
    \A i \in DOMAIN verdicts :
      /\ verdicts[i].posted_dt = resolve_posted(df[i])
      /\ verdicts[i].verdict # "old" <=>
           /\ verdicts[i].posted_dt # None
           /\ verdicts[i].clock - verdicts[i].posted_dt
                <= Hours(MAX_JOB_AGE_HOURS)

\* one run's loop met an instant exactly max_age_hours old, one a tick
\* older, a None and a future one
C5_Witness ==
    /\ \E i \in DOMAIN verdicts :
         /\ verdicts[i].clock - verdicts[i].posted_dt
              = Hours(MAX_JOB_AGE_HOURS)
         /\ verdicts[i].verdict # "old"
    /\ \E i \in DOMAIN verdicts :
         /\ verdicts[i].posted_dt # None
         /\ verdicts[i].clock - verdicts[i].posted_dt
              = Hours(MAX_JOB_AGE_HOURS) + 1
         /\ verdicts[i].verdict = "old"
    /\ \E i \in DOMAIN verdicts :
         verdicts[i].posted_dt = None /\ verdicts[i].verdict = "old"
    /\ \E i \in DOMAIN verdicts :
         verdicts[i].posted_dt > verdicts[i].clock
           /\ verdicts[i].verdict # "old"

\* ---------------------------------------------------------------- C6

\* C6: in one run is_likely_open_job_url is called at most once for a url,
\* and the records with one url that reach the liveness stage are all kept
\* or all dropped.
C6_ProbeOncePerUrl ==
    /\ \A u \in DOMAIN probes : probes[u] <= 1
    /\ \A i, j \in DOMAIN verdicts :
         (/\ df[i].url = df[j].url
          /\ verdicts[i].verdict # "old"
          /\ verdicts[j].verdict # "old")
           => verdicts[i].verdict = verdicts[j].verdict

\* a scraped record and a prior record with one url both reached the
\* liveness stage of a run that probed the url
C6_Witness ==
    /\ open_check
    /\ \E i, j \in DOMAIN verdicts :
         /\ i # j
         /\ df[i].url = df[j].url
         /\ df[i].id \in Ids(all_jobs)
         /\ df[j].id \notin Ids(all_jobs)
         /\ verdicts[i].verdict # "old"
         /\ verdicts[j].verdict # "old"
         /\ df[i].url \in DOMAIN probes
         /\ probes[df[i].url] = 1

\* ---------------------------------------------------------------- C7

\* the response came and shows a closed posting
ShowsClosed(resp, url) ==
    /\ resp.ok
    /\ \/ ContainsAny(Lower(IF resp.url # <<>> THEN resp.url ELSE url),
                       closed_markers)
       \/ resp.status \in {404, 410, 451}

ProbedLiveUrl ==
    /\ lastProbe.called
    /\ StartsWith(lastProbe.url, "http")
    /\ ~ContainsAny(Lower(lastProbe.url), closed_markers)

\* the GET that follows a HEAD answered 405
FallbackGet ==
    /\ lastProbe.head.ok
    /\ lastProbe.head.status = 405
    /\ ~ShowsClosed(lastProbe.head, lastProbe.url)

\* C7: for an http(s) url with no closed marker the probe returns false
\* only when the HEAD response, or the response of the GET issued after a
\* HEAD answered 405, ends at a url with a closed marker or has status 404,
\* 410 or 451; for any other status and when either request raises it
\* returns true.
C7_FailOpen ==
    ProbedLiveUrl =>
      /\ lastProbe.open <=>
           ~(\/ ShowsClosed(lastProbe.head, lastProbe.url)
             \/ FallbackGet /\ ShowsClosed(lastProbe.get, lastProbe.url))
      /\ lastProbe.requests =
           (IF FallbackGet THEN <<"HEAD", "GET">> ELSE <<"HEAD">>)

\* the HEAD was answered 405 and the GET raised: the probe said open
C7_Witness ==
    /\ ProbedLiveUrl
    /\ FallbackGet
    /\ ~lastProbe.get.ok
    /\ lastProbe.open

\* ---------------------------------------------------------------- C8

\* C8: when the lowercased url holds a closed marker the probe returns
\* false and has issued no HEAD and no GET.
C8_MarkerNoRequest ==
    (lastProbe.called /\ ContainsAny(Lower(lastProbe.url), closed_markers))
      => (~lastProbe.open /\ lastProbe.requests = <<>>)

\* the probe was given an http url whose marker is in capitals
C8_Witness ==
    /\ lastProbe.called
    /\ StartsWith(lastProbe.url, "http")
    /\ ContainsAny(Lower(lastProbe.url), closed_markers)
    /\ ~ContainsAny(lastProbe.url, closed_markers)
    /\ ~lastProbe.open

\* ---------------------------------------------------------------- C9

\* C9: a producer that met a failure gives main() no record.
C9_FailedGivesNothing == lastRun.failed => lastRun.count = 0

\* --------------------------------------------------------------- C10

UnreadablePrior == merge_mode /\ prior.state = "corrupt"

\* C10: a merge run whose prior file cannot be read does not return early;
\* its frame is this run's records alone, one per id, and it writes
\* exactly those of them that pass the filters.
C10_CorruptPriorAsEmpty ==
    UnreadablePrior =>
      /\ pc # "returned"
      /\ pc \in {"filter", "done"} =>
           /\ {df[i] : i \in DOMAIN df}
                = {reindex(FirstWith(all_jobs, X)) : X \in Ids(all_jobs)}
           /\ Len(df) = Cardinality(Ids(all_jobs))
      /\ Written =>
           /\ disk.state = "ok"
           /\ json.written
           /\ Ids(disk.rows) = {X \in Ids(all_jobs) : KeptId(X)}
           /\ \A i \in DOMAIN disk.rows :
                SameContent(disk.rows[i],
                            FirstWith(all_jobs, disk.rows[i].id))

\* a merge run over an unreadable prior file wrote this run's records
C10_Witness ==
    /\ UnreadablePrior
    /\ Written
    /\ disk.rows # <<>>
    /\ \E X \in Ids(all_jobs) : ~KeptId(X)

\* --------------------------------------------------------------- C11

\* C11: two records the producers emitted with the same stored title,
\* company and url have the same id.
C11_SameFieldsSameId ==
    \A i, j \in DOMAIN all_jobs :
      (/\ all_jobs[i].title = all_jobs[j].title
       /\ all_jobs[i].company = all_jobs[j].company
       /\ all_jobs[i].url = all_jobs[j].url)
        => all_jobs[i].id = all_jobs[j].id

\* --------------------------------------------------------------- C12

\* C12: every record a producer hands to main() has a title, a company
\* and a url, none of them empty.
C12_AllPresent ==
    \A i \in DOMAIN all_jobs :
      /\ all_jobs[i].title # EmptyStr
      /\ all_jobs[i].company # EmptyStr
      /\ all_jobs[i].url # EmptyStr

\* --------------------------------------------------------------- C13

\* C13: every record of the files a run wrote has an http(s) url.
C13_HttpUrlsOnly ==
    Written =>
      \A i \in DOMAIN disk.rows : StartsWith(disk.rows[i].url, "http")

\* --------------------------------------------------------------- C14

\* the producers that gave this run records, by the source they stamp
Sources == {all_jobs[i].source : i \in DOMAIN all_jobs}

\* the records one producer returned, in the order it built them
Batch(src) ==
    LET from(r) == r.source = src
    IN  SelectSeq(all_jobs, from)

RECURSIVE Orders(_)
\* the orders in which the producers of S can be invoked
Orders(S) ==
    IF S = {} THEN {<<>>}
    ELSE UNION {{<<x>> \o o : o \in Orders(S \ {x})} : x \in S}

\* the frame main() filters when the producers are invoked in this order
FrameIn(order) ==
    LET rows == drop_duplicates(Flatten([k \in DOMAIN order |->
                                           Batch(order[k])]))
    IN  enforce_schema(IF merge_mode /\ exists(prior)
                       THEN with_existing(rows, prior) ELSE rows)

\* C14: with the same records from each producer, the same prior file and
\* the same clock, invoking the producers in any other order gives the
\* records the run wrote: the same ids kept and the same fields per id.
C14_OrderIrrelevant ==
    Written =>
      \A order \in Orders(Sources) :
        \A i \in DOMAIN df :
          LET a == FirstWith(FrameIn(order), df[i].id)
              v == verdicts[i]
              dt == resolve_posted(a)
          IN  /\ v.verdict = "old" =>
                   ~is_recent_post(dt, MAX_JOB_AGE_HOURS, v.clock)
              /\ v.verdict = "kept" =>
                   /\ is_recent_post(dt, MAX_JOB_AGE_HOURS, v.clock)
                   /\ \E k \in DOMAIN disk.rows :
                        disk.rows[k] = normalize(a, dt, v.clock)

\* --------------------------------------------------------------- C15

\* the date string is in the form the program writes
AsWrittenDate(s) ==
    /\ parse_datetime_utc(s) # None
    /\ strftime(parse_datetime_utc(s)) = s

\* row i of the prior file is as a run of the program writes rows: the
\* output columns, an id no earlier row has, both dates in the written form
AsWritten(i) ==
    /\ DOMAIN prior.rows[i] = Columns
    /\ prior.rows[i].id # EmptyStr
    /\ \A j \in 1..(i - 1) :
         HasId(prior.rows[j]) => prior.rows[j].id # prior.rows[i].id
    /\ AsWrittenDate(prior.rows[i].posted_date)
    /\ AsWrittenDate(prior.rows[i].scraped_at)

\* C15: in a merge run, a record of the prior file whose id is not scraped
\* again and that passes the filters is written back with every field as
\* it was; when nothing is scraped and every prior record passes, the
\* records written are the records of the prior file.
C15_PriorUntouched ==
    (Written /\ merge_mode /\ prior.state = "ok") =>
      /\ \A i \in DOMAIN prior.rows :
           (/\ AsWritten(i)
            /\ prior.rows[i].id \notin Ids(all_jobs)
            /\ KeptId(prior.rows[i].id))
             => \E k \in DOMAIN disk.rows : disk.rows[k] = prior.rows[i]
      /\ (/\ all_jobs = <<>>
          /\ \A i \in DOMAIN prior.rows :
               AsWritten(i) /\ KeptId(prior.rows[i].id))
           => {disk.rows[k] : k \in DOMAIN disk.rows}
                = {prior.rows[i] : i \in DOMAIN prior.rows}

\* a merge run that scraped nothing wrote back two prior records, one of
\* them scraped a day before the run
C15_Witness ==
    /\ Written
    /\ merge_mode
    /\ open_check
    /\ all_jobs = <<>>
    /\ prior.state = "ok"
    /\ Len(prior.rows) = 2
    /\ \A i \in DOMAIN prior.rows : AsWritten(i) /\ KeptId(prior.rows[i].id)
    /\ \E i \in DOMAIN prior.rows :
         parse_datetime_utc(prior.rows[i].scraped_at) < Now0

\* --------------------------------------------------------------- C16

\* no producer gave a record and this is not a merge run over a file
NothingToDo ==
    /\ all_jobs = <<>>
    /\ ~(merge_mode /\ prior.state # "absent")

\* C16: once the producers have run, a run with no record and nothing to
\* merge with returns before the filter loop and the save: jobs.csv and
\* jobs.json are as the run found them; and a run returns early in no
\* other case.
C16_EarlyReturn ==
    /\ (pc \notin {"scrape", "frame"} /\ NothingToDo) =>
         /\ pc = "returned"
         /\ disk = prior
         /\ ~json.written
         /\ json.last_updated = <<>>
         /\ df = <<>>
         /\ verdicts = <<>>
    /\ pc = "returned" => NothingToDo

\* a run without --merge scraped nothing and returned, over a jobs.csv
\* that holds records
C16_Witness ==
    /\ pc = "returned"
    /\ ~merge_mode
    /\ prior.state = "ok"
    /\ prior.rows # <<>>
    /\ disk = prior

\* --------------------------------------------------------------- C17

\* the rows the filter loop gave this verdict
Given(verdict) ==
    Cardinality({i \in DOMAIN verdicts : verdicts[i].verdict = verdict})

\* C17: each row the filter loop has handled is counted once, in
\* dropped_old, in dropped_closed or among the kept rows, so that at the
\* end the three counts add up to the rows of the frame; a row that is not
\* recent is counted old without being probed, and so is a row with no
\* date that can be parsed.
C17_EveryRowCounted ==
    /\ pc \in {"filter", "done"} =>
         /\ Len(verdicts) = row_i - 1
         /\ dropped_old = Given("old")
         /\ dropped_closed = Given("closed")
         /\ Len(normalized_rows) = Given("kept")
         /\ dropped_old + dropped_closed + Len(normalized_rows) = row_i - 1
    /\ Written =>
         dropped_old + dropped_closed + Len(disk.rows) = Len(df)
    /\ \A i \in DOMAIN verdicts :
         /\ ~is_recent_post(resolve_posted(df[i]), MAX_JOB_AGE_HOURS,
                            verdicts[i].clock)
              => verdicts[i].verdict = "old"
         /\ resolve_posted(df[i]) = None => verdicts[i].verdict = "old"
    /\ \A u \in DOMAIN probes :
         \E i \in DOMAIN verdicts :
           df[i].url = u /\ verdicts[i].verdict # "old"

\* a run wrote its files after counting a row with no date as old, a row
\* as closed and a row as kept
C17_Witness ==
    /\ Written
    /\ \E i \in DOMAIN df :
         resolve_posted(df[i]) = None /\ verdicts[i].verdict = "old"
    /\ dropped_closed >= 1
    /\ Len(disk.rows) >= 1

====
